---- MODULE Spec2Model ----
(***************************************************************************)
(* Model of src/index.js: the cart-to-order workflow of the e-commerce     *)
(* backend (cart add/update/remove, cart checkout, single order, order     *)
(* lookup) over a MySQL store reached through pooled connections.          *)
(*                                                                         *)
(* Each HTTP request in flight is one slot r \in Reqs.  A handler is cut   *)
(* into steps at its awaits: every database round trip is one atomic step  *)
(* that may succeed or throw.  Statements outside a transaction are        *)
(* autocommitted; statements inside one are kept in the request's write    *)
(* set txn[r] and become visible at COMMIT.                                *)
(*                                                                         *)
(* The connection is used as the handlers use it: query(), commit() and    *)
(* rollback() are awaited and resolve with [rows] or reject.               *)
(*                                                                         *)
(* Money is counted in units of 0.005 (half a cent), so that a number a    *)
(* client sends with three decimals can be told from the DECIMAL(_,2)      *)
(* value the store keeps of it.                                            *)
(***************************************************************************)
EXTENDS Integers, Sequences, FiniteSets, Bags, TLC

(* ---------------------------------------------------------------- bounds *)
MaxReqs == 2
MaxQty == 1
MaxOrders == 2
MaxItems == 2
MaxLog == 3

Reqs == 1..MaxReqs
Users == {1, 2}
Products == {1, 2}
NoRows == <<>>

\* Request fields whose type the handlers depend on are JavaScript values.
Undefined == [type |-> "undefined"]
Num(n) == [type |-> "number", value |-> n]
List(s) == [type |-> "array", value |-> s]

\* !v for a JavaScript value: undefined and 0 are falsy, an array is not.
Falsy(v) == v.type = "undefined" \/ (v.type = "number" /\ v.value = 0)

\* !id for a user or product id, where id 0 also stands for a missing field.
NoId(id) == id = 0

\* Quantities a request may carry, and the quantities a cart row may reach.
QtyInputs == {Undefined} \cup {Num(n) : n \in (0 - 1)..MaxQty}
QtyCap == MaxQty + 3
StoredQty == (0 - QtyCap)..QtyCap

Cent == 2
CatalogPrices == {2 * Cent, 4 * Cent}

\* Every list of at most MaxItems of the given items.
ListsOf(items) == {List(s) : s \in UNION {[1..n -> items] : n \in 0..MaxItems}}

(* ------------------------------------------------------------ the store *)
\* A value written to a DECIMAL(_,2) column: rounded to whole cents, half
\* away from zero.
Decimal2(x) == ((x + 1) \div Cent) * Cent

CartRow(u, p, q) == [user_id |-> u, product_id |-> p, quantity |-> q]

\* The rows of cart table c that WHERE user_id = u AND product_id = p selects.
CartMatch(c, u, p) == {row \in BagToSet(c) : row.user_id = u /\ row.product_id = p}

\* The rows of cart table c that WHERE user_id = u selects.
CartOfUser(c, u) == {row \in BagToSet(c) : row.user_id = u}

RECURSIVE BagOfSeq(_)
BagOfSeq(s) == IF s = <<>> THEN EmptyBag ELSE SetToBag({Head(s)}) (+) BagOfSeq(Tail(s))

RECURSIVE SumSeq(_)
SumSeq(s) == IF s = <<>> THEN 0 ELSE Head(s) + SumSeq(Tail(s))

\* c without the rows in the set rows (every copy of them).
BagWithout(c, rows) == [row \in (DOMAIN c) \ rows |-> c[row]]

\* The number of rows of c in the set rows, copies counted.
RowCount(c, rows) == BagCardinality([row \in (DOMAIN c) \cap rows |-> c[row]])

(* ---------------------------------------------------------------- state *)
VARIABLES
  products,     \* catalog: product id -> price, 0 when the id has no row
  cart,         \* table cart, committed rows: a bag of CartRow
  orders,       \* table orders, committed rows
  order_items,  \* table order_items, committed rows: a bag
  nextOrderId,  \* AUTO_INCREMENT counter of orders.id
  cartLock,     \* user -> the request whose open transaction deleted that
                \* user's cart rows and holds their locks, or 0
  pc,           \* request -> the await its handler is suspended at
  req,          \* request -> the parsed request
  loc,          \* request -> the handler's local variables
  txn,          \* request -> the write set of its open transaction
  resp,         \* request -> the response sent
  checkedOut,   \* request -> the pool connections its handler holds
  log           \* history of the completed requests (SpecSeq, SpecConc)

vars == <<products, cart, orders, order_items, nextOrderId, cartLock,
          pc, req, loc, txn, resp, checkedOut, log>>

NoReq == [kind |-> "none"]
NoLoc == [existing |-> {}]
NoTxn == [open |-> FALSE, catalog |-> <<>>, orders |-> {}, items |-> EmptyBag,
          cartDeleted |-> FALSE]
NoResp == [status |-> 0, body |-> NoRows]

\* The store as the server starts on it: product 1 on sale at 0.02, product
\* 2 not in the catalog, no cart rows, no orders.
Init ==
  /\ products = [p \in Products |-> IF p = 1 THEN 2 * Cent ELSE 0]
  /\ cart = EmptyBag
  /\ orders = {}
  /\ order_items = EmptyBag
  /\ nextOrderId = 1
  /\ cartLock = [u \in Users |-> 0]
  /\ pc = [r \in Reqs |-> "idle"]
  /\ req = [r \in Reqs |-> NoReq]
  /\ loc = [r \in Reqs |-> NoLoc]
  /\ txn = [r \in Reqs |-> NoTxn]
  /\ resp = [r \in Reqs |-> NoResp]
  /\ checkedOut = [r \in Reqs |-> 0]
  /\ log = <<>>

(* --------------------------------------------------- handler scaffolding *)
\* The handler of request r suspends at await `label` with locals l.
GotoWith(r, label, l) ==
  /\ pc' = [pc EXCEPT ![r] = label]
  /\ loc' = [loc EXCEPT ![r] = l]
  /\ UNCHANGED <<resp, checkedOut>>

Goto(r, label) == GotoWith(r, label, loc[r])

\* The message of an error the database driver rejects a call with.
QueryError == "query failed"

\* throw: control passes to the catch block `label` with the error's message.
Throw(r, label, message) == GotoWith(r, label, [error |-> message])

\* A validation that runs after the connection was taken and returns
\* outside the try block.
Reject_HoldingConnection(r, status) ==
  /\ pc' = [pc EXCEPT ![r] = "done"]
  /\ loc' = [loc EXCEPT ![r] = NoLoc]
  /\ resp' = [resp EXCEPT ![r] = [status |-> status, body |-> NoRows]]
  /\ checkedOut' = [checkedOut EXCEPT ![r] = @ + 1]

\* return res.status(status).json(...) of a handler's validation, before it
\* asks the pool for a connection.
Reject(r, status) ==
  /\ pc' = [pc EXCEPT ![r] = "done"]
  /\ loc' = [loc EXCEPT ![r] = NoLoc]
  /\ resp' = [resp EXCEPT ![r] = [status |-> status, body |-> NoRows]]
  /\ UNCHANGED checkedOut

\* A handler without the finally block.
Send_NoRelease(r, status, body) ==
  /\ pc' = [pc EXCEPT ![r] = "done"]
  /\ loc' = [loc EXCEPT ![r] = NoLoc]
  /\ resp' = [resp EXCEPT ![r] = [status |-> status, body |-> body]]
  /\ UNCHANGED checkedOut

\* res.status(status).json(body) inside the handler's try or catch, then its
\* finally block: connection.release(). The handler has returned and its
\* locals are gone. Status 0 stands for a handler that ends on a rejected
\* promise without sending a response: its finally block runs all the same.
Send(r, status, body) ==
  /\ pc' = [pc EXCEPT ![r] = "done"]
  /\ loc' = [loc EXCEPT ![r] = NoLoc]
  /\ resp' = [resp EXCEPT ![r] = [status |-> status, body |-> body]]
  /\ checkedOut' = [checkedOut EXCEPT ![r] = @ - 1]

\* A request arrives on a free slot; its handler runs to its first await.
Accept(r, rq) ==
  /\ pc[r] = "idle"
  /\ req' = [req EXCEPT ![r] = rq]

\* The client has its response, the server holds nothing of the request any
\* more; the slot is free again.
Finish(r) ==
  /\ pc[r] = "done"
  /\ ~ txn[r].open
  /\ pc' = [pc EXCEPT ![r] = "idle"]
  /\ req' = [req EXCEPT ![r] = NoReq]
  /\ resp' = [resp EXCEPT ![r] = NoResp]
  /\ UNCHANGED <<products, cart, orders, order_items, nextOrderId, cartLock, loc, txn,
                 checkedOut>>

\* The await its handler reaches first once it holds a connection.
FirstAwait(kind) ==
  CASE kind = "addOrMerge" -> "add_select"
    [] kind = "setQuantity" -> "upd_query"
    [] kind = "remove" -> "rem_query"
    [] kind = "listWithDetails" -> "gc_query"
    [] kind = "placeOrder" -> "po_begin"
    [] kind = "placeSingleOrder" -> "so_begin"
    [] kind = "getOrder" -> "go_order"
    [] kind = "listOrders" -> "lo_orders"

\* getConnectionWithRetry(): the callback of pool.getConnection runs without
\* an error, the promise resolves with the connection and the handler goes
\* on to its try block.
ConnGranted(r) ==
  /\ pc[r] = "get_conn"
  /\ pc' = [pc EXCEPT ![r] = FirstAwait(req[r].kind)]
  /\ checkedOut' = [checkedOut EXCEPT ![r] = @ + 1]
  /\ UNCHANGED <<products, cart, orders, order_items, nextOrderId, cartLock,
                 req, loc, txn, resp>>

\* The callback runs with an error: a timer of 5000 ms is set, the promise
\* stays pending.
ConnRefused(r) ==
  /\ pc[r] = "get_conn"
  /\ pc' = [pc EXCEPT ![r] = "conn_retry"]
  /\ UNCHANGED <<products, cart, orders, order_items, nextOrderId, cartLock,
                 req, loc, txn, resp, checkedOut>>

\* A retry that gives up: the promise rejects, and the handler, which awaits
\* it outside its try block, ends without a response.
RetryTimer_GivesUp(r) ==
  /\ pc[r] = "conn_retry"
  /\ pc' = [pc EXCEPT ![r] = "done"]
  /\ UNCHANGED <<products, cart, orders, order_items, nextOrderId, cartLock,
                 req, loc, txn, resp, checkedOut>>

\* The timer fires: getConnectionWithRetry() is called again and its outcome
\* is passed on to the pending promise.
RetryTimer(r) ==
  /\ pc[r] = "conn_retry"
  /\ pc' = [pc EXCEPT ![r] = "get_conn"]
  /\ UNCHANGED <<products, cart, orders, order_items, nextOrderId, cartLock,
                 req, loc, txn, resp, checkedOut>>

\* An autocommitted write to cart rows of user u waits while another
\* request's open transaction holds the locks of that user's rows.
CartWritable(u) == cartLock[u] = 0

(* ------------------------------------------ POST /api/cart (addOrMerge) *)
\* The first handler registered for the route serves every request: it
\* sends a response and never calls next().
AddToCart(r, u, p, q) ==
  /\ Accept(r, [kind |-> "addOrMerge", user_id |-> u, product_id |-> p, quantity |-> q])
  /\ IF NoId(u) \/ NoId(p) \/ Falsy(q)
       THEN Reject(r, 400)
       ELSE Goto(r, "get_conn")
  /\ UNCHANGED <<products, cart, orders, order_items, nextOrderId, cartLock, txn>>

\* SELECT * FROM cart WHERE user_id = ? AND product_id = ?
AddSelect(r) ==
  /\ pc[r] = "add_select"
  /\ \/ GotoWith(r, "add_write",
                 [existing |-> CartMatch(cart, req[r].user_id, req[r].product_id)])
     \/ Send(r, 500, NoRows)
  /\ UNCHANGED <<products, cart, orders, order_items, nextOrderId, cartLock, req, txn>>

\* UPDATE cart SET quantity = q WHERE user_id = u AND product_id = p
CartUpdate(c, u, p, q) ==
  IF CartMatch(c, u, p) = {}
    THEN c
    ELSE BagWithout(c, CartMatch(c, u, p))
           (+) [row \in {CartRow(u, p, q)} |-> RowCount(c, CartMatch(c, u, p))]

\* The merge that overwrites instead of adding.
NewQuantity_Overwrite(existingQuantity, quantity) == quantity

\* const newQuantity = existingCartItems[0].quantity + quantity
NewQuantity(existingQuantity, quantity) == existingQuantity + quantity

\* existingCartItems.length > 0: the UPDATE to newQuantity.
AddUpdate(r) ==
  /\ pc[r] = "add_write"
  /\ loc[r].existing # {}
  /\ \/ \E first \in loc[r].existing :
          LET newQuantity == NewQuantity(first.quantity, req[r].quantity.value) IN
          /\ newQuantity \in StoredQty
          /\ CartWritable(req[r].user_id)
          /\ cart' = CartUpdate(cart, req[r].user_id, req[r].product_id, newQuantity)
          /\ Send(r, 200, NoRows)
     \/ Send(r, 500, NoRows) /\ UNCHANGED cart
  /\ UNCHANGED <<products, orders, order_items, nextOrderId, cartLock, req, txn>>

\* The table without its key: every INSERT is accepted.
CartKeyFree_NoKey(c, u, p) == TRUE

\* The composite key (user_id, product_id) of table cart: an INSERT of a
\* second row for the pair is refused with a duplicate-key error.
CartKeyFree(c, u, p) == CartMatch(c, u, p) = {}

\* The insert as it would be stored if both handlers of the route served
\* the request.
CartInsert_Twice(c, u, p, q) == c (+) SetToBag({CartRow(u, p, q + q)})

\* INSERT INTO cart (user_id, product_id, quantity) VALUES (u, p, q)
CartInsert(c, u, p, q) == c (+) SetToBag({CartRow(u, p, q)})

\* else: INSERT INTO cart (user_id, product_id, quantity) VALUES (?, ?, ?)
AddInsert(r) ==
  /\ pc[r] = "add_write"
  /\ loc[r].existing = {}
  /\ \/ /\ CartWritable(req[r].user_id)
        /\ IF CartKeyFree(cart, req[r].user_id, req[r].product_id)
             THEN /\ cart' = CartInsert(cart, req[r].user_id, req[r].product_id,
                                        req[r].quantity.value)
                  /\ Send(r, 200, NoRows)
             ELSE Send(r, 500, NoRows) /\ UNCHANGED cart
     \/ Send(r, 500, NoRows) /\ UNCHANGED cart
  /\ UNCHANGED <<products, orders, order_items, nextOrderId, cartLock, req, txn>>

(* ------------------------------- POST /api/cart/update (setQuantity) *)
UpdateCart(r, u, p, q) ==
  /\ Accept(r, [kind |-> "setQuantity", userId |-> u, productId |-> p, quantity |-> q])
  /\ IF NoId(u) \/ NoId(p) \/ q.type = "undefined"
       THEN Reject(r, 400)
       ELSE Goto(r, "get_conn")
  /\ UNCHANGED <<products, cart, orders, order_items, nextOrderId, cartLock, txn>>

\* The delete without its product_id condition.
CartDelete_WholeCart(c, u, p) == BagWithout(c, CartOfUser(c, u))

\* DELETE FROM cart WHERE user_id = ? AND product_id = ?
CartDelete(c, u, p) == BagWithout(c, CartMatch(c, u, p))

\* INSERT INTO cart ... VALUES (?, ?, ?) ON DUPLICATE KEY UPDATE quantity = ?
CartUpsert(c, u, p, q) ==
  IF CartKeyFree(c, u, p) THEN CartInsert(c, u, p, q) ELSE CartUpdate(c, u, p, q)

UpdateQuery(r) ==
  /\ pc[r] = "upd_query"
  /\ \/ /\ CartWritable(req[r].userId)
        /\ cart' = IF req[r].quantity.value <= 0
                     THEN CartDelete(cart, req[r].userId, req[r].productId)
                     ELSE CartUpsert(cart, req[r].userId, req[r].productId,
                                     req[r].quantity.value)
        /\ Send(r, 200, NoRows)
     \/ Send(r, 500, NoRows) /\ UNCHANGED cart
  /\ UNCHANGED <<products, orders, order_items, nextOrderId, cartLock, req, txn>>

(* ------------------------------------ DELETE /api/cart/remove (remove) *)
RemoveFromCart(r, u, p) ==
  /\ Accept(r, [kind |-> "remove", userId |-> u, productId |-> p])
  /\ IF NoId(u) \/ NoId(p)
       THEN Reject(r, 400)
       ELSE Goto(r, "get_conn")
  /\ UNCHANGED <<products, cart, orders, order_items, nextOrderId, cartLock, txn>>

RemoveQuery(r) ==
  /\ pc[r] = "rem_query"
  /\ \/ /\ CartWritable(req[r].userId)
        /\ cart' = CartDelete(cart, req[r].userId, req[r].productId)
        /\ IF RowCount(cart, CartMatch(cart, req[r].userId, req[r].productId)) = 0
             THEN Send(r, 404, NoRows)
             ELSE Send(r, 200, NoRows)
     \/ Send(r, 500, NoRows) /\ UNCHANGED cart
  /\ UNCHANGED <<products, orders, order_items, nextOrderId, cartLock, req, txn>>

(* ------------------------------- GET /api/cart/:userId (listWithDetails) *)
GetCart(r, u) ==
  /\ Accept(r, [kind |-> "listWithDetails", userId |-> u])
  /\ IF NoId(u)
       THEN Reject(r, 400)
       ELSE Goto(r, "get_conn")
  /\ UNCHANGED <<products, cart, orders, order_items, nextOrderId, cartLock, txn>>

\* SELECT c.product_id, c.quantity, p.price, ... FROM cart c
\* JOIN products p ON c.product_id = p.id WHERE c.user_id = ?
ListWithDetails(c, catalog, u) ==
  {[product_id |-> row.product_id, quantity |-> row.quantity,
    price |-> catalog[row.product_id]] :
     row \in {x \in CartOfUser(c, u) : catalog[x.product_id] # 0}}

GcQuery(r) ==
  /\ pc[r] = "gc_query"
  /\ \/ Send(r, 200, [cartItems |-> ListWithDetails(cart, products, req[r].userId)])
     \/ Send(r, 500, NoRows)
  /\ UNCHANGED <<products, cart, orders, order_items, nextOrderId, cartLock, req, txn>>

(* ------------------------------------------------ transactions (InnoDB) *)
\* beginTransaction(): the transaction starts with nothing written; catalog
\* is the committed catalog its reads are served from.
TxnBegin(r) == txn' = [txn EXCEPT ![r] = [NoTxn EXCEPT !.open = TRUE, !.catalog = products]]

\* A checkout whose DELETE FROM cart has no WHERE clause.
TxnCommit_EveryCart(r) ==
  /\ orders' = orders \cup txn[r].orders
  /\ order_items' = order_items (+) txn[r].items
  /\ cart' = IF txn[r].cartDeleted THEN EmptyBag ELSE cart
  /\ txn' = [txn EXCEPT ![r] = NoTxn]
  /\ cartLock' = [u \in Users |-> IF cartLock[u] = r THEN 0 ELSE cartLock[u]]

\* commit(): the write set becomes visible at once, the locks are released.
TxnCommit(r) ==
  /\ orders' = orders \cup txn[r].orders
  /\ order_items' = order_items (+) txn[r].items
  /\ cart' = IF txn[r].cartDeleted
               THEN BagWithout(cart, {row \in BagToSet(cart) : cartLock[row.user_id] = r})
               ELSE cart
  /\ txn' = [txn EXCEPT ![r] = NoTxn]
  /\ cartLock' = [u \in Users |-> IF cartLock[u] = r THEN 0 ELSE cartLock[u]]

\* A catch that does not roll back statements that were not in a transaction.
TxnDiscard_Autocommitted(r) == TxnCommit(r)

\* A catch that leaves an order header behind.
TxnDiscard_KeepsHeader(r) ==
  /\ orders' = orders \cup txn[r].orders
  /\ txn' = [txn EXCEPT ![r] = NoTxn]
  /\ cartLock' = [u \in Users |-> IF cartLock[u] = r THEN 0 ELSE cartLock[u]]
  /\ UNCHANGED <<cart, order_items>>

\* rollback(), or the server dropping the transaction of a lost connection:
\* the write set is discarded and the row locks are released.
TxnDiscard(r) ==
  /\ txn' = [txn EXCEPT ![r] = NoTxn]
  /\ cartLock' = [u \in Users |-> IF cartLock[u] = r THEN 0 ELSE cartLock[u]]
  /\ UNCHANGED <<cart, orders, order_items>>

\* The server ends the transaction of a connection it has lost: the handler
\* of a request of this kind returned with its rollback() rejected.
ServerDropsTxn(r, kind) ==
  /\ pc[r] = "done"
  /\ req[r].kind = kind
  /\ txn[r].open
  /\ TxnDiscard(r)
  /\ UNCHANGED <<products, nextOrderId, pc, req, loc, resp, checkedOut>>

\* Requests that will still take an orders.id: the counter is capped so that
\* at most MaxOrders ids are ever handed out.
BeforeOrderInsert == {"po_begin", "po_order", "so_begin", "so_product", "so_order"}
Acquiring == {"get_conn", "conn_retry"}
WillInsertOrder(r) ==
  \/ pc[r] \in BeforeOrderInsert
  \/ pc[r] \in Acquiring /\ req[r].kind \in {"placeOrder", "placeSingleOrder"}
OrderRoom == nextOrderId + Cardinality({r \in Reqs : WillInsertOrder(r)}) <= MaxOrders

\* NOW() has a resolution of one second: an insert gets the order_date of
\* the latest order inserted before it, or a later one.
LatestOrderDate(rows) ==
  IF rows = {} THEN 0 ELSE CHOOSE d \in {o.order_date : o \in rows} :
                             \A o \in rows : o.order_date <= d

Now ==
  LET latest == LatestOrderDate(orders \cup UNION {txn[r].orders : r \in Reqs})
  IN  {latest, latest + 1} \ {0}

OrderRow(id, u, date, total) ==
  [id |-> id, user_id |-> u, order_date |-> date, total_amount |-> Decimal2(total)]

ItemRow(id, p, q, price) ==
  [order_id |-> id, product_id |-> p, quantity |-> q, price |-> Decimal2(price)]

(* ---------------------------------- POST /api/orders/place (placeOrder) *)
\* The validation without its length test.
PlaceOrderInvalid_NoLengthCheck(u, items) == NoId(u) \/ Falsy(items)

\* !userId || !items || items.length === 0
PlaceOrderInvalid(u, items) == NoId(u) \/ Falsy(items) \/ Len(items.value) = 0

PlaceOrder(r, u, items) ==
  /\ Accept(r, [kind |-> "placeOrder", userId |-> u, items |-> items])
  /\ IF PlaceOrderInvalid(u, items)
       THEN Reject(r, 400)
       ELSE OrderRoom /\ Goto(r, "get_conn")
  /\ UNCHANGED <<products, cart, orders, order_items, nextOrderId, cartLock, txn>>

PoBegin(r) ==
  /\ pc[r] = "po_begin"
  /\ \/ TxnBegin(r) /\ Goto(r, "po_order")
     \/ Goto(r, "po_catch") /\ UNCHANGED txn
  /\ UNCHANGED <<products, cart, orders, order_items, nextOrderId, cartLock, req>>

\* items.reduce((total, item) => total + item.price * item.quantity, 0)
TotalAmount(items) == SumSeq([i \in DOMAIN items |-> items[i].price * items[i].quantity])

\* INSERT INTO orders (user_id, order_date, total_amount) VALUES (?, NOW(), ?)
PoInsertOrder(r) ==
  /\ pc[r] = "po_order"
  /\ \/ /\ \E date \in Now :
             txn' = [txn EXCEPT ![r].orders =
                       {OrderRow(nextOrderId, req[r].userId, date,
                                 TotalAmount(req[r].items.value))}]
        /\ nextOrderId' = nextOrderId + 1
        /\ GotoWith(r, "po_items", [orderId |-> nextOrderId])
     \/ Goto(r, "po_catch") /\ UNCHANGED <<txn, nextOrderId>>
  /\ UNCHANGED <<products, cart, orders, order_items, cartLock, req>>

\* The insert of the first item alone.
OrderItemsValues_FirstOnly(orderId, items) ==
  <<ItemRow(orderId, items[1].id, items[1].quantity, items[1].price)>>

\* items.map((item) => [orderId, item.id, item.quantity, item.price])
OrderItemsValues(orderId, items) ==
  [i \in DOMAIN items |-> ItemRow(orderId, items[i].id, items[i].quantity, items[i].price)]

\* INSERT INTO order_items (order_id, product_id, quantity, price) VALUES ?
\* (a statement with no rows after VALUES is a syntax error)
PoInsertItems(r) ==
  /\ pc[r] = "po_items"
  /\ \/ /\ Len(req[r].items.value) > 0
        /\ txn' = [txn EXCEPT ![r].items =
                     BagOfSeq(OrderItemsValues(loc[r].orderId, req[r].items.value))]
        /\ Goto(r, "po_delete")
     \/ Goto(r, "po_catch") /\ UNCHANGED txn
  /\ UNCHANGED <<products, cart, orders, order_items, nextOrderId, cartLock, req>>

\* DELETE FROM cart WHERE user_id = ?: the rows and the gaps of the user's
\* key range stay locked until the transaction ends.
PoDeleteCart(r) ==
  /\ pc[r] = "po_delete"
  /\ \/ /\ cartLock[req[r].userId] = 0
        /\ cartLock' = [cartLock EXCEPT ![req[r].userId] = r]
        /\ txn' = [txn EXCEPT ![r].cartDeleted = TRUE]
        /\ Goto(r, "po_commit")
     \/ Goto(r, "po_catch") /\ UNCHANGED <<txn, cartLock>>
  /\ UNCHANGED <<products, cart, orders, order_items, nextOrderId, req>>

PoCommit(r) ==
  /\ pc[r] = "po_commit"
  /\ \/ TxnCommit(r) /\ Send(r, 200, [orderId |-> loc[r].orderId])
     \/ /\ Goto(r, "po_catch")
        /\ UNCHANGED <<cart, orders, order_items, cartLock, txn>>
  /\ UNCHANGED <<products, nextOrderId, req>>

\* What the router does with a handler whose promise rejected: Express 4
\* sends no response (status 0), Express 5 answers 500 by its default error
\* handler; the source does not fix the version.
UnhandledRejection == {0, 500}

\* catch (err): await connection.rollback(), then the 500 response.  When
\* rollback() itself rejects, the handler's promise rejects before it sent a
\* response, and the transaction stays open until the server drops it.
PoCatch(r) ==
  /\ pc[r] = "po_catch"
  /\ \/ TxnDiscard(r) /\ Send(r, 500, NoRows)
     \/ /\ \E status \in UnhandledRejection : Send(r, status, NoRows)
        /\ UNCHANGED <<cart, orders, order_items, cartLock, txn>>
  /\ UNCHANGED <<products, nextOrderId, req>>

(* ------------------------------ POST /api/single-order (placeSingleOrder) *)
SingleOrder(r, u, p, q) ==
  /\ Accept(r, [kind |-> "placeSingleOrder", userId |-> u, productId |-> p, quantity |-> q])
  /\ IF NoId(u) \/ NoId(p) \/ Falsy(q)
       THEN Reject(r, 400)
       ELSE OrderRoom /\ Goto(r, "get_conn")
  /\ UNCHANGED <<products, cart, orders, order_items, nextOrderId, cartLock, txn>>

\* A beginTransaction() that rejects is caught by the outer catch alone.
SoBegin(r) ==
  /\ pc[r] = "so_begin"
  /\ \/ TxnBegin(r) /\ Goto(r, "so_product")
     \/ Send(r, 500, NoRows) /\ UNCHANGED txn
  /\ UNCHANGED <<products, cart, orders, order_items, nextOrderId, cartLock, req>>

\* SELECT id, name, price, image FROM products WHERE id = ?
SelectProduct(catalog, productId) ==
  IF catalog[productId] = 0 THEN {} ELSE {[id |-> productId, price |-> catalog[productId]]}

\* productResults.length === 0 throws "Product not found".
SoProduct(r) ==
  /\ pc[r] = "so_product"
  /\ \/ LET productResults == SelectProduct(txn[r].catalog, req[r].productId) IN
        IF productResults = {}
          THEN Throw(r, "so_catch", "Product not found")
          ELSE \E product \in productResults : GotoWith(r, "so_order", [product |-> product])
     \/ Throw(r, "so_catch", QueryError)
  /\ UNCHANGED <<products, cart, orders, order_items, nextOrderId, cartLock, req, txn>>

\* const totalAmount = product.price * quantity; INSERT INTO orders ...
SoInsertOrder(r) ==
  /\ pc[r] = "so_order"
  /\ \/ /\ \E date \in Now :
             txn' = [txn EXCEPT ![r].orders =
                       {OrderRow(nextOrderId, req[r].userId, date,
                                 loc[r].product.price * req[r].quantity.value)}]
        /\ nextOrderId' = nextOrderId + 1
        /\ GotoWith(r, "so_item", [product |-> loc[r].product, orderId |-> nextOrderId])
     \/ Throw(r, "so_catch", QueryError) /\ UNCHANGED <<txn, nextOrderId>>
  /\ UNCHANGED <<products, cart, orders, order_items, cartLock, req>>

\* The single order that also clears the user's cart, as the cart checkout does.
SoInsertItem_DeletesCart(r) ==
  /\ pc[r] = "so_item"
  /\ cartLock[req[r].userId] = 0
  /\ cartLock' = [cartLock EXCEPT ![req[r].userId] = r]
  /\ txn' = [txn EXCEPT ![r].items =
               SetToBag({ItemRow(loc[r].orderId, req[r].productId,
                                 req[r].quantity.value, loc[r].product.price)}),
                        ![r].cartDeleted = TRUE]
  /\ Goto(r, "so_commit")
  /\ UNCHANGED <<products, cart, orders, order_items, nextOrderId, req>>

\* INSERT INTO order_items (order_id, product_id, quantity, price) VALUES (?, ?, ?, ?)
SoInsertItem(r) ==
  /\ pc[r] = "so_item"
  /\ \/ /\ txn' = [txn EXCEPT ![r].items =
                     SetToBag({ItemRow(loc[r].orderId, req[r].productId,
                                       req[r].quantity.value, loc[r].product.price)})]
        /\ Goto(r, "so_commit")
     \/ Throw(r, "so_catch", QueryError) /\ UNCHANGED txn
  /\ UNCHANGED <<products, cart, orders, order_items, nextOrderId, cartLock, req>>

SoCommit(r) ==
  /\ pc[r] = "so_commit"
  /\ \/ TxnCommit(r) /\ Send(r, 201, [orderId |-> loc[r].orderId])
     \/ /\ Throw(r, "so_catch", QueryError)
        /\ UNCHANGED <<cart, orders, order_items, cartLock, txn>>
  /\ UNCHANGED <<products, nextOrderId, req>>

\* Inner catch: await connection.rollback(); throw error.  The rethrown
\* error, or the rejection of rollback(), reaches the outer catch: 500.  A
\* rejected rollback() leaves the transaction open until the server drops it.
SoCatch(r) ==
  /\ pc[r] = "so_catch"
  /\ \/ TxnDiscard(r) /\ Send(r, 500, NoRows)
     \/ Send(r, 500, NoRows) /\ UNCHANGED <<cart, orders, order_items, cartLock, txn>>
  /\ UNCHANGED <<products, nextOrderId, req>>

(* ------------------------------- GET /api/orders/:orderId (getOrder) *)
\* The :orderId path parameter: the digits of id after `prefix` copies of
\* the text "ORD-".
OrderIdInputs == [prefix : {0, 1}, id : 1..MaxOrders]

\* The id passed to the query as the route received it.
StripOrd_Keep(orderId) == orderId

\* orderId.replace("ORD-", ""): the first occurrence only.
StripOrd(orderId) == [orderId EXCEPT !.prefix = IF @ > 0 THEN @ - 1 ELSE 0]

\* The number MySQL compares a string parameter to an integer column as:
\* its leading digits, 0 when it starts with a letter.
SqlNumber(text) == IF text.prefix = 0 THEN text.id ELSE 0

\* The first handler registered for the route serves every request.
GetOrder(r, u, orderId) ==
  /\ Accept(r, [kind |-> "getOrder", userId |-> u, orderId |-> orderId])
  /\ IF NoId(u)
       THEN Reject(r, 400)
       ELSE GotoWith(r, "get_conn", [numericOrderId |-> StripOrd(orderId)])
  /\ UNCHANGED <<products, cart, orders, order_items, nextOrderId, cartLock, txn>>

\* The lookup without its user_id condition.
SelectOrder_AnyUser(numericOrderId, userId) ==
  {o \in orders : o.id = SqlNumber(numericOrderId)}

\* SELECT ... FROM orders o WHERE o.id = ? AND o.user_id = ?
SelectOrder(numericOrderId, userId) ==
  {o \in orders : o.id = SqlNumber(numericOrderId) /\ o.user_id = userId}

GoSelectOrder(r) ==
  /\ pc[r] = "go_order"
  /\ \/ LET orderResults == SelectOrder(loc[r].numericOrderId, req[r].userId) IN
        IF orderResults = {}
          THEN Send(r, 404, NoRows)
          ELSE \E order \in orderResults :
                 GotoWith(r, "go_items", [numericOrderId |-> loc[r].numericOrderId,
                                          order |-> order])
     \/ Send(r, 500, NoRows)
  /\ UNCHANGED <<products, cart, orders, order_items, nextOrderId, cartLock, req, txn>>

\* SELECT ... FROM order_items oi JOIN products p ON oi.product_id = p.id
\* WHERE oi.order_id = ?
SelectItems(numericOrderId) ==
  {oi \in BagToSet(order_items) :
     oi.order_id = SqlNumber(numericOrderId) /\ products[oi.product_id] # 0}

GoSelectItems(r) ==
  /\ pc[r] = "go_items"
  /\ \/ Send(r, 200, [id |-> loc[r].order.id, total |-> loc[r].order.total_amount,
                      items |-> SelectItems(loc[r].numericOrderId)])
     \/ Send(r, 500, NoRows)
  /\ UNCHANGED <<products, cart, orders, order_items, nextOrderId, cartLock, req, txn>>

(* ------------------------------------------- GET /api/orders (listOrders) *)
\* The first handler registered for the route serves every request.
ListOrders(r, u) ==
  /\ Accept(r, [kind |-> "listOrders", userId |-> u])
  /\ IF NoId(u)
       THEN Reject(r, 400)
       ELSE Goto(r, "get_conn")
  /\ UNCHANGED <<products, cart, orders, order_items, nextOrderId, cartLock, txn>>

\* SELECT ... FROM orders o WHERE o.user_id = ? ORDER BY o.order_date DESC:
\* the user's orders in any sequence of non-increasing order_date (rows of
\* equal order_date come in an order the server chooses).
SelectOrdersByDate(userId) ==
  LET rows == {o \in orders : o.user_id = userId}
  IN  {s \in [1..Cardinality(rows) -> rows] :
         /\ \A i, j \in DOMAIN s : i # j => s[i] # s[j]
         /\ \A i, j \in DOMAIN s : i < j => s[i].order_date >= s[j].order_date}

LoSelectOrders(r) ==
  /\ pc[r] = "lo_orders"
  /\ \/ \E orderResults \in SelectOrdersByDate(req[r].userId) :
          IF Len(orderResults) = 0
            THEN Send(r, 200, <<>>)
            ELSE GotoWith(r, "lo_items", [orderResults |-> orderResults])
     \/ Send(r, 500, NoRows)
  /\ UNCHANGED <<products, cart, orders, order_items, nextOrderId, cartLock, req, txn>>

\* SELECT ... FROM order_items oi JOIN products p ON oi.product_id = p.id
\* WHERE oi.order_id IN (?), grouped by order_id: the items listed for one
\* order, as {product_id, price, quantity}.
OrderItemsMap(orderId) ==
  LET itemResults == {oi \in BagToSet(order_items) :
                        oi.order_id = orderId /\ products[oi.product_id] # 0}
  IN  [item \in {[product_id |-> oi.product_id, price |-> oi.price,
                  quantity |-> oi.quantity] : oi \in itemResults}
         |-> order_items[ItemRow(orderId, item.product_id, item.quantity, item.price)]]

\* orderResults.map(order => ({id: `ORD-${order.order_id}`, total, items}))
ProcessedOrders(orderResults) ==
  [i \in DOMAIN orderResults |->
     [id |-> [prefix |-> 1, id |-> orderResults[i].id],
      total |-> orderResults[i].total_amount,
      items |-> OrderItemsMap(orderResults[i].id)]]

LoSelectItems(r) ==
  /\ pc[r] = "lo_items"
  /\ \/ Send(r, 200, ProcessedOrders(loc[r].orderResults))
     \/ Send(r, 500, NoRows)
  /\ UNCHANGED <<products, cart, orders, order_items, nextOrderId, cartLock, req, txn>>

(* ----------------------------------------------- catalog administration *)
\* PUT /api/products/update/:id: UPDATE products SET ..., price = ? WHERE id = ?
UpdateProduct(p, price) ==
  /\ products[p] # 0
  /\ products[p] # price
  /\ products' = [products EXCEPT ![p] = price]
  /\ UNCHANGED <<cart, orders, order_items, nextOrderId, cartLock, pc, req, loc, txn, resp,
                 checkedOut>>

\* DELETE /api/products/delete/:id
DeleteProduct(p) ==
  /\ products[p] # 0
  /\ products' = [products EXCEPT ![p] = 0]
  /\ UNCHANGED <<cart, orders, order_items, nextOrderId, cartLock, pc, req, loc, txn, resp,
                 checkedOut>>

(* -------------------------------------------------------- specification *)
\* The steps of request r, its inputs drawn from the sets of `in`.
AddStep(r, in) ==
  \/ \E u \in in.users, p \in in.products, q \in in.quantities : AddToCart(r, u, p, q)
  \/ AddSelect(r)
  \/ AddUpdate(r)
  \/ AddInsert(r)

CartStep(r, in) ==
  \/ AddStep(r, in)
  \/ \E u \in in.users, p \in in.products, q \in in.quantities : UpdateCart(r, u, p, q)
  \/ UpdateQuery(r)
  \/ \E u \in in.users, p \in in.products : RemoveFromCart(r, u, p)
  \/ RemoveQuery(r)

PlaceOrderStep(r, in) ==
  \/ \E u \in in.orderUsers, items \in in.items : PlaceOrder(r, u, items)
  \/ PoBegin(r)
  \/ PoInsertOrder(r)
  \/ PoInsertItems(r)
  \/ PoDeleteCart(r)
  \/ PoCommit(r)
  \/ PoCatch(r)
  \/ ServerDropsTxn(r, "placeOrder")

SingleOrderStep(r, in) ==
  \/ \E u \in in.orderUsers, p \in in.orderProducts, q \in in.orderQuantities :
       SingleOrder(r, u, p, q)
  \/ SoBegin(r)
  \/ SoProduct(r)
  \/ SoInsertOrder(r)
  \/ SoInsertItem(r)
  \/ SoCommit(r)
  \/ SoCatch(r)
  \/ ServerDropsTxn(r, "placeSingleOrder")

GetOrderStep(r, in) ==
  \/ \E u \in in.queryUsers, orderId \in in.orderIds : GetOrder(r, u, orderId)
  \/ GoSelectOrder(r)
  \/ GoSelectItems(r)

CatalogStep(in) ==
  \/ \E p \in in.catalogProducts, price \in CatalogPrices : UpdateProduct(p, price)
  \/ \E p \in in.catalogProducts : DeleteProduct(p)

ItemA == [id |-> 1, quantity |-> 2, price |-> 1]
ItemB == [id |-> 2, quantity |-> 1, price |-> 2 * Cent]

\* Spec: the five operations that write the cart, in any interleaving of the
\* requests in flight, on the cart row of one user and one product.
SpecInputs ==
  [users |-> {0, 1}, products |-> {0, 1}, quantities |-> QtyInputs,
   orderUsers |-> {0, 1}, orderProducts |-> {1, 2}, orderQuantities |-> {Num(1)},
   items |-> {List(<<>>), List(<<ItemA>>)}]

Next ==
  /\ \E r \in Reqs : \/ CartStep(r, SpecInputs)
                     \/ PlaceOrderStep(r, SpecInputs)
                     \/ SingleOrderStep(r, SpecInputs)
                     \/ ConnGranted(r)
                     \/ Finish(r)
  /\ UNCHANGED log

Spec == Init /\ [][Next]_vars

\* SpecOrders: cart checkout with item lists of every shape, the carts of
\* both users filled by addOrMerge.
OrdersInputs ==
  [users |-> Users, products |-> {1}, quantities |-> {Num(MaxQty + 1)},
   orderUsers |-> {0, 1}, items |-> {Undefined} \cup ListsOf({ItemA, ItemB})]

NextOrders ==
  /\ \E r \in Reqs : \/ AddStep(r, OrdersInputs)
                     \/ PlaceOrderStep(r, OrdersInputs)
                     \/ ConnGranted(r)
                     \/ Finish(r)
  /\ UNCHANGED log

SpecOrders == Init /\ [][NextOrders]_vars

\* SpecCart: the cart requests of both users for both products, product 2
\* not being in the catalog, with the cart listing.
CartInputs ==
  [users |-> Users, products |-> Products, quantities |-> {Num(0), Num(MaxQty + 1)}]

GetCartStep(r, in) ==
  \/ \E u \in in.users : GetCart(r, u)
  \/ GcQuery(r)

NextCart ==
  /\ \E r \in Reqs : \/ CartStep(r, CartInputs)
                     \/ GetCartStep(r, CartInputs)
                     \/ ConnGranted(r)
                     \/ Finish(r)
  /\ UNCHANGED log

SpecCart == Init /\ [][NextCart]_vars

\* SpecQuery: order lookup by either user while single orders are placed
\* and products leave the catalog.
QueryInputs ==
  [orderUsers |-> Users, orderProducts |-> {1}, orderQuantities |-> {Num(1)},
   queryUsers |-> {0} \cup Users, orderIds |-> OrderIdInputs,
   catalogProducts |-> {1}]

NextQuery ==
  /\ \/ \E r \in Reqs : \/ SingleOrderStep(r, QueryInputs)
                        \/ GetOrderStep(r, QueryInputs)
                        \/ ConnGranted(r)
                        \/ Finish(r)
     \/ CatalogStep(QueryInputs)
  /\ UNCHANGED log

SpecQuery == Init /\ [][NextQuery]_vars

\* SpecList: order listing by either user after single orders, with
\* products leaving the catalog; requests are served one after the other.
ListInputs ==
  [orderUsers |-> Users, orderProducts |-> {1}, orderQuantities |-> {Num(1)},
   listUsers |-> {0} \cup Users, catalogProducts |-> {1}]

ListOrdersStep(r, in) ==
  \/ \E u \in in.listUsers : ListOrders(r, u)
  \/ LoSelectOrders(r)
  \/ LoSelectItems(r)

NextList ==
  /\ \/ \E r \in Reqs : \/ SingleOrderStep(r, ListInputs)
                        \/ ListOrdersStep(r, ListInputs)
                        \/ ConnGranted(r)
                        \/ Finish(r)
     \/ CatalogStep(ListInputs)
  /\ (\E r \in Reqs : pc[r] = "idle" /\ pc'[r] # "idle")
       => \A r \in Reqs : pc[r] \in {"idle", "done"}
  /\ UNCHANGED log

SpecList == Init /\ [][NextList]_vars

\* SpecAll: the eight core operations side by side, each with a request that
\* passes its validation and requests that fail it.
AllInputs ==
  [users |-> {0, 1}, products |-> {0, 1}, quantities |-> {Undefined, Num(1)},
   orderUsers |-> {0, 1}, orderProducts |-> {0, 1},
   orderQuantities |-> {Undefined, Num(1)},
   items |-> {Undefined, List(<<>>), List(<<ItemA>>)},
   queryUsers |-> {0, 1}, orderIds |-> {[prefix |-> 1, id |-> 1]},
   listUsers |-> {0, 1}]

NextAll ==
  /\ \E r \in Reqs : \/ CartStep(r, AllInputs)
                     \/ GetCartStep(r, AllInputs)
                     \/ PlaceOrderStep(r, AllInputs)
                     \/ SingleOrderStep(r, AllInputs)
                     \/ GetOrderStep(r, AllInputs)
                     \/ ListOrdersStep(r, AllInputs)
                     \/ ConnGranted(r)
                     \/ Finish(r)
  /\ UNCHANGED log

SpecAll == Init /\ [][NextAll]_vars

\* SpecPool: cart requests of one user for one product on a pool whose
\* getConnection may fail any number of times.  Fairness: a timer that was
\* set fires, and a pool asked again and again grants a connection at some
\* attempt.
PoolInputs == [users |-> {1}, products |-> {1}, quantities |-> {Num(1)}]

NextPool ==
  /\ \E r \in Reqs : \/ CartStep(r, PoolInputs)
                     \/ GetCartStep(r, PoolInputs)
                     \/ ConnGranted(r)
                     \/ ConnRefused(r)
                     \/ RetryTimer(r)
                     \/ Finish(r)
  /\ UNCHANGED log

SpecPool ==
  /\ Init
  /\ [][NextPool]_vars
  /\ \A r \in Reqs : /\ WF_vars(RetryTimer(r) /\ UNCHANGED log)
                     /\ SF_vars(ConnGranted(r) /\ UNCHANGED log)

\* SpecCheckout: the client of user 1 checks out the cart as it has just
\* read it, one item per cart row at the catalog price, while adds of that
\* user are served.
CheckoutInputs ==
  [users |-> {1}, products |-> {1}, quantities |-> {Num(1)}, orderUsers |-> {1}]

\* The item lists a client forms from the cart rows of user u.
CartAsItems(u) ==
  LET rows == CartOfUser(cart, u)
      item(row) == [id |-> row.product_id, quantity |-> row.quantity,
                    price |-> products[row.product_id]]
  IN  {List([i \in DOMAIN s |-> item(s[i])]) :
         s \in {t \in [1..Cardinality(rows) -> rows] :
                  \A i, j \in DOMAIN t : t[i] = t[j] => i = j}}

CheckoutStep(r, in) ==
  \/ \E u \in in.orderUsers : \E items \in CartAsItems(u) : PlaceOrder(r, u, items)
  \/ PoBegin(r)
  \/ PoInsertOrder(r)
  \/ PoInsertItems(r)
  \/ PoDeleteCart(r)
  \/ PoCommit(r)
  \/ PoCatch(r)
  \/ ServerDropsTxn(r, "placeOrder")

NextCheckout ==
  /\ \E r \in Reqs : \/ AddStep(r, CheckoutInputs)
                     \/ CheckoutStep(r, CheckoutInputs)
                     \/ ConnGranted(r)
                     \/ Finish(r)
  /\ UNCHANGED log

SpecCheckout == Init /\ [][NextCheckout]_vars

(* -------------------------------------------- specifications with history *)
\* log records each request with its response status, in the order the
\* responses were sent; at most MaxLog requests are ever accepted.
Completed(r) == pc[r] # "done" /\ pc'[r] = "done"
Accepted(r) == pc[r] = "idle" /\ pc'[r] # "idle"
InFlight == {r \in Reqs : pc[r] \notin {"idle", "done"}}

LogEntry(rq, status) == [req |-> rq, status |-> status]

Logged ==
  /\ (\E r \in Reqs : Accepted(r)) => Len(log) + Cardinality(InFlight) < MaxLog
  /\ log' = IF \E r \in Reqs : Completed(r)
              THEN Append(log, LET r == CHOOSE r \in Reqs : Completed(r)
                               IN  LogEntry(req'[r], resp'[r].status))
              ELSE log

LogInputs ==
  [users |-> Users, products |-> {1}, quantities |-> {Num(n) : n \in 1..(MaxQty + 1)}]

\* SpecConc: cart requests for one (user, product) pair, any interleaving.
NextConc ==
  /\ \E r \in Reqs : CartStep(r, LogInputs) \/ ConnGranted(r) \/ Finish(r)
  /\ Logged

SpecConc == Init /\ [][NextConc]_vars

\* SpecSeq: the same requests one after the other: a request is accepted
\* only when no other is in flight.
NextSeq ==
  /\ \E r \in Reqs : CartStep(r, LogInputs) \/ ConnGranted(r) \/ Finish(r)
  /\ (\E r \in Reqs : Accepted(r)) => InFlight = {}
  /\ Logged

SpecSeq == Init /\ [][NextSeq]_vars

(* ------------------------------------------------------------ properties *)
\* Log entry e is an addOrMerge(u, p, q) that was answered 200.
IsAdd(e, u, p, q) ==
  /\ e.req.kind = "addOrMerge"
  /\ e.req.user_id = u
  /\ e.req.product_id = p
  /\ e.req.quantity = Num(q)
  /\ e.status = 200

\* The cart holds exactly one row for (u, p), with quantity q.
OneRow(u, p, q) ==
  /\ CartMatch(cart, u, p) = {CartRow(u, p, q)}
  /\ cart[CartRow(u, p, q)] = 1

\* C1: when the only requests served were N addOrMerge(u,p,1), interleaved in
\* any way and each answered 200, and none is still in flight, the stored
\* quantity of (u,p) is N: no increment is lost.
C1_NoLostIncrement ==
  \A u \in Users, p \in Products :
    (InFlight = {} /\ Len(log) > 0 /\ \A i \in DOMAIN log : IsAdd(log[i], u, p, 1))
      => OneRow(u, p, Len(log))

C3_NoPartialOrder ==
  /\ \A o \in orders : \E oi \in BagToSet(order_items) : oi.order_id = o.id
  /\ \A oi \in BagToSet(order_items) : \E o \in orders : oi.order_id = o.id

\* An order is committed, and a checkout that had inserted its order header
\* (and taken an order id) has failed and ended.
C3_Witness ==
  /\ orders # {}
  /\ nextOrderId > Cardinality(orders) + 1
  /\ \A r \in Reqs : ~txn[r].open

\* C4: every order item a checkout transaction writes is priced at the
\* catalog price its product had in that transaction, whatever the request
\* carried.
C4_CatalogPriceStored ==
  \A r \in Reqs : \A oi \in BagToSet(txn[r].items) :
    oi.price = txn[r].catalog[oi.product_id]

\* C5 as claimed: a getOrder by user u for an order of another user is
\* answered 404 with none of the order's data.
C5_OthersOrderNotFound ==
  \A r \in Reqs :
    (/\ pc[r] = "done"
     /\ req[r].kind = "getOrder"
     /\ req[r].userId \in Users
     /\ \E o \in orders : o.id = req[r].orderId.id /\ o.user_id # req[r].userId)
      => (resp[r].status = 404 /\ resp[r].body = NoRows)

\* C5 as amended: the answer is 404, or 500 when a query failed, and in
\* either case it carries none of the order's data.
C5_OthersOrderNeverServed ==
  \A r \in Reqs :
    (/\ pc[r] = "done"
     /\ req[r].kind = "getOrder"
     /\ req[r].userId \in Users
     /\ \E o \in orders : o.id = req[r].orderId.id /\ o.user_id # req[r].userId)
      => (resp[r].status \in {404, 500} /\ resp[r].body = NoRows)

\* A user asked for an existing order of the other user, by its ORD- form,
\* and was answered 404.
C5_Witness ==
  \E r \in Reqs :
    /\ pc[r] = "done"
    /\ req[r].kind = "getOrder"
    /\ req[r].userId \in Users
    /\ req[r].orderId.prefix = 1
    /\ \E o \in orders : o.id = req[r].orderId.id /\ o.user_id # req[r].userId
    /\ resp[r].status = 404

\* C6: after addOrMerge(u,p,q1) and then addOrMerge(u,p,q2), run one after
\* the other on a cart with no row for (u,p), exactly one row exists for
\* (u,p) and its quantity is q1+q2.
C6_SequentialAddsMerge ==
  \A u \in Users, p \in Products, q1 \in 1..(MaxQty + 1), q2 \in 1..(MaxQty + 1) :
    (InFlight = {} /\ Len(log) = 2 /\ IsAdd(log[1], u, p, q1) /\ IsAdd(log[2], u, p, q2))
      => OneRow(u, p, q1 + q2)

\* Two sequential adds of different quantities to one pair have completed.
C6_Witness ==
  \E u \in Users, p \in Products :
    /\ InFlight = {}
    /\ Len(log) = 2
    /\ IsAdd(log[1], u, p, 1)
    /\ IsAdd(log[2], u, p, MaxQty + 1)

\* C7: every cart row has quantity >= 1.
C7_QuantityPositive == \A row \in BagToSet(cart) : row.quantity >= 1

\* The sum of price * quantity over the rows `rows` of the bag b.
RECURSIVE SumLines(_, _)
SumLines(b, rows) ==
  IF rows = {} THEN 0
  ELSE LET row == CHOOSE x \in rows : TRUE
       IN  b[row] * row.price * row.quantity + SumLines(b, rows \ {row})

\* C8: the total_amount of every order is the sum of price * quantity over
\* its order items.
C8_TotalIsSumOfLines ==
  \A o \in orders :
    o.total_amount = SumLines(order_items,
                              {oi \in BagToSet(order_items) : oi.order_id = o.id})

\* Request r completes a placeOrder with 200 in this step.
PlaceOrderSucceeds(r) ==
  pc[r] # "done" /\ pc'[r] = "done" /\ req[r].kind = "placeOrder" /\ resp'[r].status = 200

\* The rows this step adds to order_items.
NewItems == order_items' (-) order_items

\* C9: the step in which a placeOrder(u, items) succeeds adds exactly one
\* order, owned by u, adds exactly one order item per supplied item, with
\* its product id and quantity, all under the new order's id, and leaves
\* u's cart with no rows.
C9_PlaceOrderEffect ==
  [][\A r \in Reqs :
       PlaceOrderSucceeds(r) =>
         LET items == req[r].items.value IN
         /\ \E o \in orders' \ orders :
              /\ orders' = orders \cup {o}
              /\ o.user_id = req[r].userId
              /\ \A oi \in BagToSet(NewItems) : oi.order_id = o.id
         /\ BagCardinality(NewItems) = Len(items)
         /\ \A i \in DOMAIN items :
              RowCount(NewItems, {oi \in BagToSet(NewItems) :
                                    /\ oi.product_id = items[i].id
                                    /\ oi.quantity = items[i].quantity})
                = Cardinality({j \in DOMAIN items :
                                 /\ items[j].id = items[i].id
                                 /\ items[j].quantity = items[i].quantity})
         /\ CartOfUser(cart', req[r].userId) = {}]_vars

\* A placeOrder of two equal lines was answered 200; the user's cart is
\* empty although another request had read a row in it, and the other
\* user's cart still has its row.
C9_Witness ==
  \E r \in Reqs :
    /\ pc[r] = "done"
    /\ req[r].kind = "placeOrder"
    /\ resp[r].status = 200
    /\ Len(req[r].items.value) = 2
    /\ req[r].items.value[1] = req[r].items.value[2]
    /\ CartOfUser(cart, req[r].userId) = {}
    /\ \E u \in Users \ {req[r].userId} : CartOfUser(cart, u) # {}
    /\ \E r2 \in Reqs \ {r} : /\ pc[r2] = "add_write"
                              /\ req[r2].user_id = req[r].userId
                              /\ loc[r2].existing # {}

\* The item list of a placeOrder request is missing or empty.
NoItems(items) == items.type = "undefined" \/ (items.type = "array" /\ items.value = <<>>)

\* C10: a placeOrder whose item list is missing or empty is answered 400 in
\* the step that accepts it, a step that leaves orders, order_items and cart
\* unchanged, and it never has a transaction.
C10_EmptyOrderRejected ==
  [][\A r \in Reqs :
       (req'[r].kind = "placeOrder" /\ NoItems(req'[r].items)) =>
         /\ pc'[r] = "done"
         /\ resp'[r].status = 400
         /\ txn'[r] = NoTxn
         /\ pc[r] = "idle" => UNCHANGED <<orders, order_items, cart>>]_vars

\* A placeOrder of a known user with an empty item list has been answered
\* 400 while the tables hold an order and a cart row.
C10_Witness ==
  \E r \in Reqs :
    /\ pc[r] = "done"
    /\ req[r].kind = "placeOrder"
    /\ req[r].userId \in Users
    /\ req[r].items = List(<<>>)
    /\ resp[r].status = 400
    /\ orders # {}
    /\ cart # EmptyBag

\* C11: a placeSingleOrder whose product lookup found no row (the error
\* "Product not found") is answered 404.
C11_UnknownProductNotFound ==
  [][\A r \in Reqs :
       (pc[r] = "so_catch" /\ loc[r].error = "Product not found" /\ pc'[r] = "done")
         => resp'[r].status = 404]_vars

CheckoutKinds == {"placeOrder", "placeSingleOrder"}

\* C12: no step of a placeOrder or placeSingleOrder request changes the
\* orders, order_items or cart tables, except the step that ends it in
\* success: a checkout that ends in an error (or in no response at all)
\* has left the three tables as they were.
C12_FailedCheckoutChangesNothing ==
  [][\A r \in Reqs :
       (/\ req[r].kind \in CheckoutKinds
        /\ pc'[r] # pc[r]
        /\ ~(pc'[r] = "done" /\ resp'[r].status \in {200, 201}))
         => UNCHANGED <<orders, order_items, cart>>]_vars

\* A placeOrder was answered 500 for a user who has a cart row; an order id
\* taken by a failed checkout is missing among the committed orders.
C12_Witness ==
  \E r \in Reqs :
    /\ pc[r] = "done"
    /\ req[r].kind = "placeOrder"
    /\ resp[r].status = 500
    /\ CartOfUser(cart, req[r].userId) # {}
    /\ orders # {}
    /\ nextOrderId > Cardinality(orders) + 1
    /\ \A r2 \in Reqs : ~txn[r2].open

\* C13: no step of a placeSingleOrder request changes the cart table.
C13_SingleOrderKeepsCart ==
  [][\A r \in Reqs :
       (req[r].kind = "placeSingleOrder" /\ pc'[r] # pc[r]) => UNCHANGED cart]_vars

\* A single order was answered 201 for a product that is in the ordering
\* user's cart.
C13_Witness ==
  \E r \in Reqs :
    /\ pc[r] = "done"
    /\ req[r].kind = "placeSingleOrder"
    /\ resp[r].status = 201
    /\ CartMatch(cart, req[r].userId, req[r].productId) # {}

\* Request r ends a setQuantity(u,p,0) or a remove(u,p) in this step.
RowRemovalEnds(r) ==
  /\ pc[r] \in {"upd_query", "rem_query"}
  /\ pc'[r] = "done"
  /\ \/ req[r].kind = "remove" /\ resp'[r].status \in {200, 404}
     \/ req[r].kind = "setQuantity" /\ req[r].quantity = Num(0) /\ resp'[r].status = 200

\* The number of copies of row in the cart table c.
Copies(c, row) == IF row \in DOMAIN c THEN c[row] ELSE 0

\* C14: the step that ends a setQuantity(u,p,0), like the step that ends a
\* remove(u,p), leaves no row for (u,p), leaves p out of listWithDetails(u)
\* and leaves every other cart row as it was.
C14_SetZeroIsRemove ==
  [][\A r \in Reqs :
       RowRemovalEnds(r) =>
         LET u == req[r].userId
             p == req[r].productId
         IN  /\ CartMatch(cart', u, p) = {}
             /\ \A item \in ListWithDetails(cart', products', u) : item.product_id # p
             /\ \A row \in BagToSet(cart) \cup BagToSet(cart') :
                  (row.user_id # u \/ row.product_id # p)
                    => Copies(cart', row) = Copies(cart, row)]_vars

\* A setQuantity(u,p,0) was answered 200 after a concurrent addOrMerge had
\* read the row of (u,p); the row is gone, while the user's row for the
\* other product and the other user's row for p are there.
C14_Witness ==
  \E r \in Reqs :
    /\ pc[r] = "done"
    /\ req[r].kind = "setQuantity"
    /\ req[r].quantity = Num(0)
    /\ resp[r].status = 200
    /\ CartMatch(cart, req[r].userId, req[r].productId) = {}
    /\ CartOfUser(cart, req[r].userId) # {}
    /\ \E u \in Users \ {req[r].userId} : CartMatch(cart, u, req[r].productId) # {}
    /\ \E r2 \in Reqs \ {r} : /\ pc[r2] = "add_write"
                              /\ req[r2].user_id = req[r].userId
                              /\ req[r2].product_id = req[r].productId
                              /\ loc[r2].existing # {}

\* C15: the step that ends a setQuantity(u,p,q) with q > 0 on a cart without
\* a row for (u,p) leaves the cart unchanged and answers 404 (500 when the
\* statement itself fails).
C15_SetOnMissingRowNotFound ==
  [][\A r \in Reqs :
       (/\ pc[r] = "upd_query"
        /\ pc'[r] = "done"
        /\ req[r].quantity.value > 0
        /\ CartMatch(cart, req[r].userId, req[r].productId) = {})
         => (cart' = cart /\ resp'[r].status \in {404, 500})]_vars

\* C16: an addOrMerge whose quantity is zero or negative is answered 400 in
\* the step that accepts it, and that step leaves the cart unchanged.
C16_BadQuantityRejected ==
  [][\A r \in Reqs :
       (/\ pc[r] = "idle"
        /\ req'[r].kind = "addOrMerge"
        /\ req'[r].quantity.type = "number"
        /\ req'[r].quantity.value <= 0)
         => (pc'[r] = "done" /\ resp'[r].status = 400 /\ cart' = cart)]_vars

\* C17: no step of an addOrMerge for a product that is not in the catalog
\* changes the cart, and the request is answered 404 (500 when a statement
\* fails).
C17_UnknownProductNotAdded ==
  [][\A r \in Reqs :
       (/\ req[r].kind = "addOrMerge"
        /\ req[r].product_id \in Products
        /\ products[req[r].product_id] = 0
        /\ pc'[r] # pc[r])
         => /\ cart' = cart
            /\ pc'[r] = "done" => resp'[r].status \in {404, 500}]_vars

\* What the two queries of getOrder(u, orderId) select in the current state.
Lookup(u, orderId) ==
  LET numericOrderId == StripOrd(orderId)
      found == SelectOrder(numericOrderId, u)
  IN  [order |-> found,
       items |-> IF found = {} THEN {} ELSE SelectItems(numericOrderId)]

ListEnds(r) ==
  /\ req[r].kind = "listOrders"
  /\ pc[r] # "done"
  /\ pc'[r] = "done"
  /\ resp'[r].status = 200

\* The (product, quantity, price) rows order_items holds for order n: the
\* rows written when the order was created, no statement of the program
\* updating or deleting order_items rows.
WrittenItems(n) ==
  [item \in {[product_id |-> oi.product_id, price |-> oi.price, quantity |-> oi.quantity] :
               oi \in {x \in BagToSet(order_items) : x.order_id = n}}
     |-> order_items[ItemRow(n, item.product_id, item.quantity, item.price)]]

\* C19: every order in a listOrders response carries exactly the items
\* written for it at creation, whatever catalog and cart operations came
\* in between.
C19_ListedItemsAsWritten ==
  [][\A r \in Reqs :
       ListEnds(r) =>
         \A i \in DOMAIN resp'[r].body :
           resp'[r].body[i].items = WrittenItems(resp'[r].body[i].id.id)]_vars

\* C20: served one request after the other, a listOrders(u) response holds
\* exactly the orders owned by u, each once, a later order before every
\* earlier one (order ids are handed out in the order of placement); with no
\* order of u it is the empty list.
C20_ListedNewestFirst ==
  [][\A r \in Reqs :
       ListEnds(r) =>
         LET body == resp'[r].body IN
         /\ {body[i].id.id : i \in DOMAIN body}
              = {o.id : o \in {x \in orders : x.user_id = req[r].userId}}
         /\ \A i, j \in DOMAIN body : i < j => body[i].id.id > body[j].id.id]_vars

\* C22: every request that acquired a connection holds exactly one until its
\* handler ends and none afterwards, whichever way the handler ends; while
\* it waits for the pool it holds none.  So with no request in flight no
\* connection is checked out.
HoldsNone == {"idle", "done"} \cup Acquiring

C22_ReleasedExactlyOnce ==
  \A r \in Reqs : checkedOut[r] = IF pc[r] \in HoldsNone THEN 0 ELSE 1

\* Both requests have ended after a failure inside their try block, one of
\* them with its rollback rejected, and the pool has every connection back.
C22_Witness ==
  /\ \A r \in Reqs : pc[r] = "done" /\ checkedOut[r] = 0
  /\ \E r \in Reqs : req[r].kind = "placeOrder" /\ resp[r].status = 0 /\ txn[r].open
  /\ \E r \in Reqs : req[r].kind = "placeSingleOrder" /\ resp[r].status = 500

\* C23: when a checkout request (placeOrder, placeSingleOrder) is answered
\* with an error, its transaction is no longer open and none of the orders it
\* wrote is in the table: the rollback came before the response.
C23_RollbackBeforeErrorResponse ==
  [][\A r \in Reqs :
       (Completed(r) /\ req[r].kind \in CheckoutKinds /\ resp'[r].status >= 500)
         => ~ txn'[r].open /\ txn[r].orders \cap orders' = {}]_vars

\* C26: a transaction is open only on a connection that its request still
\* holds: by the time connection.release() has run, the transaction was
\* committed or rolled back.
C26_NoOpenTxnOnReleased ==
  \A r \in Reqs : txn[r].open => checkedOut[r] = 1

\* C27: a request whose handler has ended was sent a response.
C27_HandledMeansAnswered ==
  \A r \in Reqs : pc[r] = "done" => resp[r].status # 0

\* C28: no step of a placeOrder(u, items) request, whether the request ends
\* in success or in failure, changes a cart row of a user other than u.
C28_OtherCartsUntouched ==
  [][\A r \in Reqs :
       (req'[r].kind = "placeOrder" /\ pc'[r] # pc[r])
         => \A row \in BagToSet(cart) \cup BagToSet(cart') :
              row.user_id # req'[r].userId => Copies(cart', row) = Copies(cart, row)]_vars

\* A checkout of user 1 has committed and emptied that user's cart while
\* user 2 has a cart row.
C28_Witness ==
  \E r \in Reqs :
    /\ pc[r] = "done" /\ req[r].kind = "placeOrder" /\ resp[r].status = 200
    /\ req[r].userId = 1
    /\ \E o \in orders : o.user_id = 1
    /\ \E row \in BagToSet(cart) : row.user_id = 2

\* The quantity the cart c stores for the rows `rows`.
RECURSIVE TotalQuantity(_, _)
TotalQuantity(c, rows) ==
  IF rows = {} THEN 0
  ELSE LET row == CHOOSE x \in rows : TRUE
       IN  row.quantity * c[row] + TotalQuantity(c, rows \ {row})

StoredQuantity(c, u, p) == TotalQuantity(c, CartMatch(c, u, p))

\* C29: served one request after the other, the step that ends an
\* addOrMerge(u,p,q) with status 200 raises the stored quantity of (u,p) by
\* exactly q, and the request is answered once: that step adds the one log
\* entry of the request.
C29_AddServedOnce ==
  [][\A r \in Reqs :
       (Completed(r) /\ req[r].kind = "addOrMerge" /\ resp'[r].status = 200)
         => /\ StoredQuantity(cart', req[r].user_id, req[r].product_id)
                 = StoredQuantity(cart, req[r].user_id, req[r].product_id)
                     + req[r].quantity.value
            /\ log' = Append(log, LogEntry(req[r], 200))]_vars

\* One add has been served on an empty cart and one on the row it made.
C29_Witness ==
  \E r \in Reqs :
    /\ pc[r] = "done" /\ req[r].kind = "addOrMerge" /\ resp[r].status = 200
    /\ Len(log) = 2 /\ log[1].status = 200 /\ log[2] = LogEntry(req[r], 200)
    /\ log[1].req = req[r]
    /\ OneRow(req[r].user_id, req[r].product_id, 2 * req[r].quantity.value)

\* C24: a request of any of the eight core operations that is answered 400
\* is answered in the step it arrives in, before its handler asks the pool
\* for a connection: that step leaves every table, every transaction and
\* the pool as they were.
CoreKinds ==
  {"addOrMerge", "setQuantity", "remove", "listWithDetails", "placeOrder",
   "placeSingleOrder", "listOrders", "getOrder"}

C24_ValidationErrorTouchesNothing ==
  [][\A r \in Reqs :
       (Completed(r) /\ resp'[r].status = 400)
         => /\ req'[r].kind \in CoreKinds
            /\ pc[r] = "idle"
            /\ UNCHANGED <<products, cart, orders, order_items, nextOrderId, cartLock,
                           txn, checkedOut>>]_vars

\* A request was answered 400 while the other holds a connection inside an
\* open transaction, with a cart row and an order in the tables.
C24_Witness ==
  \E r, r2 \in Reqs :
    /\ pc[r] = "done" /\ resp[r].status = 400
    /\ txn[r2].open /\ checkedOut[r2] = 1 /\ checkedOut[r] = 0
    /\ cart # EmptyBag /\ orders # {}

\* C25: a handler waiting in getConnectionWithRetry() leaves it only by
\* resolving with a connection, never by a rejection; a failed attempt sets
\* one timer, whose firing starts one new attempt, any number of times; and
\* when the pool grants a connection at some attempt, the wait ends with the
\* handler holding a connection.
C25_AcquisitionCompletes ==
  /\ [][\A r \in Reqs :
          /\ pc[r] = "get_conn" =>
                \/ pc'[r] = "get_conn" /\ checkedOut'[r] = 0
                \/ pc'[r] = "conn_retry" /\ checkedOut'[r] = 0
                \/ pc'[r] = FirstAwait(req[r].kind) /\ checkedOut'[r] = 1
          /\ pc[r] = "conn_retry" =>
                pc'[r] \in Acquiring /\ checkedOut'[r] = 0]_vars
  /\ \A r \in Reqs : (pc[r] \in Acquiring) ~> (checkedOut[r] = 1)

\* A request waits for its retry timer after a failed attempt while the
\* other request was granted a connection.
C25_Witness ==
  \E r, r2 \in Reqs :
    /\ pc[r] = "conn_retry" /\ checkedOut[r] = 0
    /\ checkedOut[r2] = 1

\* C21: when the client formed the item list of placeOrder(u, items) from
\* u's cart, every cart row the checkout's commit removes is reflected in
\* the order's items, with its product and its quantity: a row that a
\* concurrent request added or changed meanwhile is not dropped.
C21_CheckoutDropsNothing ==
  [][\A r \in Reqs :
       PlaceOrderSucceeds(r) =>
         \A row \in BagToSet(cart) :
           (row.user_id = req[r].userId /\ Copies(cart', row) < Copies(cart, row))
             => \E i \in DOMAIN req[r].items.value :
                  /\ req[r].items.value[i].id = row.product_id
                  /\ req[r].items.value[i].quantity = row.quantity]_vars
====
